---- MODULE Spec2Model ----
(***************************************************************************)
(* Green's function driver of greens_function.py: the IP/EA vector         *)
(* builders, the frequency-domain solve_* sweeps, the time-domain td_*     *)
(* propagators and their AO variants.                                      *)
(*                                                                         *)
(* Amplitudes are small integers.  The external numerical kernels (the     *)
(* EOM matvec, the linear solver, the ODE integrator) are uninterpreted:   *)
(* a solution is the term Sol(A, b, x0) of its arguments, a projection the *)
(* term of the bra vector and the solution, so two results are equal       *)
(* exactly when they were computed from the same arguments.                *)
(***************************************************************************)
EXTENDS Integers, Sequences, FiniteSets, TLC

\* ------------------------------------------------------------------ bounds
MaxLen == 2     \* longest orbital index list of a call
MaxGrid == 2    \* most frequency points / time points of a call
MaxShape == 2   \* largest nocc and nvir the builders are applied to
MaxSeed == 3    \* number of amplitude sets the builders are applied to

\* --------------------------------------------------- coupled-cluster state
\* cc = [nocc, nvir, seed]; t1/l1 are (nocc x nvir), t2/l2 are
\* (nocc x nocc x nvir x nvir) with t2[i,j,a,b] = t2[j,i,b,a].
T1(cc, i, a) == cc.seed + 2 * i + 5 * a + 1

T2(cc, i, j, a, b) == cc.seed + (i + 3 * a) * (2 * j + b + 1) + (j + 3 * b) * (2 * i + a + 1)

L1(cc, i, a) == 2 * cc.seed + 3 * i + 7 * a + 2

L2(cc, i, j, a, b) == cc.seed + (2 * i + a + 1) * (j + 4 * b) + (2 * j + b + 1) * (i + 4 * a) + 3

\* ------------------------------------------------------------ numpy helpers
\* A python index into an axis of length n: negative indices wrap, anything
\* else outside the axis is an IndexError (-1 here).
PyIndex(k, n) == IF 0 <= k /\ k < n THEN k ELSE IF (0 - n) <= k /\ k < 0 THEN k + n ELSE 0 - 1

RECURSIVE SumF(_)
\* the sum of the values of f, a function on a finite set of indices
SumF(f) ==
  IF DOMAIN f = {} THEN 0
  ELSE LET k == CHOOSE x \in DOMAIN f : TRUE
       IN f[k] + SumF([j \in DOMAIN f \ {k} |-> f[j]])

\* the buffer of a 1-D array given by its entries at 0 .. n-1
Buf(f) == [k \in 1..Cardinality(DOMAIN f) |-> f[k - 1]]

\* the C-ordered buffer of a 3-D array with axes (n1, n2, n3), given by its
\* entries at the index triples
Ravel(f, n2, n3) ==
  [k \in 1..Cardinality(DOMAIN f) |-> f[<<(k - 1) \div (n2 * n3), ((k - 1) \div n3) % n2, (k - 1) % n3>>]]

Delta(i, j) == IF i = j THEN 1 ELSE 0

\* the amplitudes a builder returns; err = an IndexError was raised
Amps(v1, v2) == [err |-> FALSE, v1 |-> v1, v2 |-> v2]

AmpsIndexError == [err |-> TRUE, v1 |-> <<>>, v2 |-> <<>>]

\* the branch test of every builder
IsOccLoose(p, nocc) == p <= nocc

IsOcc(p, nocc) == p < nocc

\* ------------------------------------------------------------- EA builders
greens_b_amplitudes_ea_rhf(cc, p) ==
  LET nocc == cc.nocc
      nvir == cc.nvir
  IN IF IsOcc(p, nocc)
     THEN LET i == PyIndex(p, nocc)
          IN IF i < 0 THEN AmpsIndexError
             ELSE Amps(Buf([a \in 0..(nvir - 1) |-> 0 - T1(cc, i, a)]),
                       Ravel([j \in 0..(nocc - 1), a \in 0..(nvir - 1), b \in 0..(nvir - 1) |-> 0 - T2(cc, i, j, a, b)], nvir, nvir))
     ELSE LET c == PyIndex(p - nocc, nvir)
          IN IF c < 0 THEN AmpsIndexError
             ELSE Amps(Buf([a \in 0..(nvir - 1) |-> Delta(a, c)]),
                       Ravel([j \in 0..(nocc - 1), a \in 0..(nvir - 1), b \in 0..(nvir - 1) |-> 0], nvir, nvir))

greens_e_amplitudes_ea_rhf(cc, p) ==
  LET nocc == cc.nocc
      nvir == cc.nvir
  IN IF IsOcc(p, nocc)
     THEN LET i == PyIndex(p, nocc)
          IN IF i < 0 THEN AmpsIndexError
             ELSE Amps(Buf([a \in 0..(nvir - 1) |-> L1(cc, i, a)]),
                       Ravel([j \in 0..(nocc - 1), a \in 0..(nvir - 1), b \in 0..(nvir - 1) |-> 2 * L2(cc, i, j, a, b) - L2(cc, j, i, a, b)], nvir, nvir))
     ELSE LET c == PyIndex(p - nocc, nvir)
              v1(a) ==
                (0 - Delta(a, c))
                + SumF([i \in 0..(nocc - 1) |-> L1(cc, i, a) * T1(cc, i, c)])
                + 2 * SumF([k \in 0..(nocc - 1) |-> SumF([l \in 0..(nocc - 1) |-> SumF([d \in 0..(nvir - 1) |-> L2(cc, k, l, d, a) * T2(cc, k, l, d, c)])])])
                - SumF([k \in 0..(nocc - 1) |-> SumF([l \in 0..(nocc - 1) |-> SumF([d \in 0..(nvir - 1) |-> L2(cc, k, l, d, a) * T2(cc, l, k, d, c)])])])
              v2(j, a, b) ==
                (IF a = c THEN (0 - 2) * L1(cc, j, b) ELSE 0)
                + (IF b = c THEN L1(cc, j, a) ELSE 0)
                + 2 * SumF([k \in 0..(nocc - 1) |-> T1(cc, k, c) * L2(cc, j, k, b, a)])
                - SumF([k \in 0..(nocc - 1) |-> T1(cc, k, c) * L2(cc, j, k, a, b)])
          IN IF c < 0 THEN AmpsIndexError
             ELSE Amps(Buf([z \in 0..(nvir - 1) |-> v1(z)]), Ravel([x \in 0..(nocc - 1), y \in 0..(nvir - 1), z \in 0..(nvir - 1) |-> v2(x, y, z)], nvir, nvir))

\* ------------------------------------------------------------- IP builders
greens_b_amplitudes_ip_rhf(cc, p) ==
  LET nocc == cc.nocc
      nvir == cc.nvir
  IN IF IsOcc(p, nocc)
     THEN LET i == PyIndex(p, nocc)
          IN IF i < 0 THEN AmpsIndexError
             ELSE Amps(Buf([k \in 0..(nocc - 1) |-> Delta(k, i)]),
                       Ravel([k \in 0..(nocc - 1), j \in 0..(nocc - 1), a \in 0..(nvir - 1) |-> 0], nocc, nvir))
     ELSE LET c == PyIndex(p - nocc, nvir)
          IN IF c < 0 THEN AmpsIndexError
             ELSE Amps(Buf([i \in 0..(nocc - 1) |-> T1(cc, i, c)]),
                       Ravel([i \in 0..(nocc - 1), j \in 0..(nocc - 1), a \in 0..(nvir - 1) |-> T2(cc, i, j, a, c)], nocc, nvir))

greens_e_amplitudes_ip_rhf(cc, p) ==
  LET nocc == cc.nocc
      nvir == cc.nvir
  IN IF IsOcc(p, nocc)
     THEN LET q == PyIndex(p, nocc)
              v1(i) ==
                (0 - Delta(i, q))
                + SumF([a \in 0..(nvir - 1) |-> L1(cc, i, a) * T1(cc, q, a)])
                + 2 * SumF([l \in 0..(nocc - 1) |-> SumF([c \in 0..(nvir - 1) |-> SumF([d \in 0..(nvir - 1) |-> L2(cc, i, l, c, d) * T2(cc, q, l, c, d)])])])
                - SumF([l \in 0..(nocc - 1) |-> SumF([c \in 0..(nvir - 1) |-> SumF([d \in 0..(nvir - 1) |-> L2(cc, i, l, c, d) * T2(cc, q, l, d, c)])])])
              v2(i, j, b) ==
                (IF i = q THEN (0 - 2) * L1(cc, j, b) ELSE 0)
                + (IF j = q THEN L1(cc, i, b) ELSE 0)
                + 2 * SumF([c \in 0..(nvir - 1) |-> T1(cc, q, c) * L2(cc, i, j, c, b)])
                - SumF([c \in 0..(nvir - 1) |-> T1(cc, q, c) * L2(cc, j, i, c, b)])
          IN IF q < 0 THEN AmpsIndexError
             ELSE Amps(Buf([z \in 0..(nocc - 1) |-> v1(z)]), Ravel([x \in 0..(nocc - 1), y \in 0..(nocc - 1), z \in 0..(nvir - 1) |-> v2(x, y, z)], nocc, nvir))
     ELSE LET c == PyIndex(p - nocc, nvir)
          IN IF c < 0 THEN AmpsIndexError
             ELSE Amps(Buf([i \in 0..(nocc - 1) |-> 0 - L1(cc, i, c)]),
                       Ravel([i \in 0..(nocc - 1), j \in 0..(nocc - 1), a \in 0..(nvir - 1) |-> (0 - 2) * L2(cc, i, j, c, a) + L2(cc, i, j, a, c)], nocc, nvir))

\* --------------------------------------------------------- vector packing
\* amplitudes_to_vector_ip / _ea: hstack of the rank-1 block and the
\* ravelled rank-3 block.
amplitudes_to_vector(amps) == amps.v1 \o amps.v2

greens_b_vector_ea_rhf(cc, p) == amplitudes_to_vector(greens_b_amplitudes_ea_rhf(cc, p))

greens_e_vector_ea_rhf(cc, p) == amplitudes_to_vector(greens_e_amplitudes_ea_rhf(cc, p))

greens_b_vector_ip_rhf(cc, p) == amplitudes_to_vector(greens_b_amplitudes_ip_rhf(cc, p))

greens_e_vector_ip_rhf(cc, p) == amplitudes_to_vector(greens_e_amplitudes_ip_rhf(cc, p))

ip_shape(cc) == cc.nocc + cc.nocc * cc.nocc * cc.nvir

ea_shape(cc) == cc.nvir + cc.nocc * cc.nvir * cc.nvir

\* ------------------------------------------------------------ call inputs
\* The coupled-cluster object the calls are made on: one occupied and one
\* virtual orbital, so orbital 0 is occupied and orbital 1 is virtual.
ToyCC == [nocc |-> 1, nvir |-> 1, seed |-> 1]

Orbs == 0..(ToyCC.nocc + ToyCC.nvir - 1)

\* mo_coeff[mu, i], an invertible (nao x nmo) matrix with nao = nmo
MoCoeff(mu, i) == 1 + 2 * mu + i - 4 * mu * i

NoRepeat(s) == \A a, b \in DOMAIN s : a # b => s[a] # s[b]

ListsOver(S, n) == {s \in UNION {[1..m -> S] : m \in 1..n} : NoRepeat(s)}

IdxLists == ListsOver(Orbs, MaxLen)

\* omega_list: frequencies in any caller-given order
OmegaLists == ListsOver(1..MaxGrid, MaxGrid)

\* times: ascending sample points, times[0] = ti and times[-1] = tf
TimeLists == {[k \in 1..n |-> k - 1] : n \in 1..MaxGrid}

\* "xx" stands for every string that is neither "re" nor "im"
Modes == {"re", "im", "xx"}

MoSolveOps == {"solve_ip", "solve_ea", "solve_gf"}

AoSolveOps == {"solve_ip_ao", "solve_ea_ao"}

MoTdOps == {"td_ip", "td_ea"}

AoTdOps == {"td_ip_ao", "td_ea_ao"}

TdOps == MoTdOps \cup AoTdOps

AoOps == AoSolveOps \cup AoTdOps

Inputs ==
  {[op |-> o, ps |-> ps, qs |-> qs, grid |-> g, mode |-> "re", eta |-> 1] :
      o \in MoSolveOps, ps \in IdxLists, qs \in IdxLists, g \in OmegaLists}
  \cup {[op |-> o, ps |-> ps, qs |-> ps, grid |-> g, mode |-> "re", eta |-> 1] :
      o \in AoSolveOps, ps \in IdxLists, g \in OmegaLists}
  \cup {[op |-> o, ps |-> ps, qs |-> qs, grid |-> g, mode |-> m, eta |-> 1] :
      o \in MoTdOps, ps \in IdxLists, qs \in IdxLists, g \in TimeLists, m \in Modes}
  \cup {[op |-> o, ps |-> ps, qs |-> ps, grid |-> g, mode |-> m, eta |-> 1] :
      o \in AoTdOps, ps \in IdxLists, g \in TimeLists, m \in Modes}

\* the inputs a repeated call is observed on
RepeatInputs ==
  {i \in Inputs : i.ps = <<0, 1>> /\ i.qs = i.ps /\ Len(i.grid) = 1 /\ i.grid[1] <= 1 /\ i.mode # "im"}

\* ------------------------------------------------- the routines, by name
Sector(fn) == IF fn \in {"solve_ip", "solve_ip_ao", "td_ip", "td_ip_ao"} THEN "ip" ELSE "ea"

IsAo(fn) == fn \in AoOps

IsTd(fn) == fn \in TdOps

\* the routine a top-level operation starts with (solve_gf: solve_ip first)
FirstRoutine(op) == IF op = "solve_gf" THEN "solve_ip" ELSE op

\* the list the outer loop runs over: the ket orbitals
Kets(fn, c) == IF fn \in {"solve_ea", "td_ea"} THEN c.qs ELSE c.ps

\* the list the e-vectors are built for: the bra orbitals
Bras(fn, c) == IF fn \in {"solve_ip", "td_ip"} THEN c.qs ELSE c.ps

SectorDim(fn) == IF Sector(fn) = "ip" THEN ip_shape(ToyCC) ELSE ea_shape(ToyCC)

BVectorMo(fn, p) ==
  IF Sector(fn) = "ip" THEN greens_b_vector_ip_rhf(ToyCC, p) ELSE greens_b_vector_ea_rhf(ToyCC, p)

EVectorMo(fn, p) ==
  IF Sector(fn) = "ip" THEN greens_e_vector_ip_rhf(ToyCC, p) ELSE greens_e_vector_ea_rhf(ToyCC, p)

\* np.einsum("pi,ix->px", mo_coeff[ps, :], e_vector_mo), row k (0-based)
EVectorAo(fn, ps, k) ==
  [x \in 1..SectorDim(fn) |->
     SumF([i \in 0..(Cardinality(Orbs) - 1) |-> MoCoeff(ps[k + 1], i) * EVectorMo(fn, i)[x]])]

\* np.einsum("xi,ip->xp", b_vector_mo, mo_coeff.T[:, ps]), column k (0-based)
BVectorAo(fn, ps, k) ==
  [x \in 1..SectorDim(fn) |->
     SumF([i \in 0..(Cardinality(Orbs) - 1) |-> BVectorMo(fn, i)[x] * MoCoeff(ps[k + 1], i)])]

\* ------------------------------------------------------- values and terms
Vec(v) == [t |-> "vec", v |-> v]

\* initial_ip_guess / initial_ea_guess: the zero vector of the sector
InitialGuess(fn) == Vec([k \in 1..SectorDim(fn) |-> 0])

\* the guess a solve_* call starts from; prev is what x0 held before the call
StartGuessKept(fn, prev) == IF prev.t = "sol" THEN prev ELSE InitialGuess(fn)

StartGuess(fn, prev) == InitialGuess(fn)

\* p0 = 0.0 * x0 + 1.0
OnesLike(fn) == Vec([k \in 1..SectorDim(fn) |-> 1])

NoImds == [sector |-> "none", id |-> 0]

\* eom.make_imds(): the n-th intermediates object built in this call
MakeImds(fn, n) == [sector |-> Sector(fn), id |-> n]

\* curr_omega - 1j * broadening (IP), -curr_omega - 1j * broadening (EA)
Shift(fn, omega, eta) ==
  [re |-> IF Sector(fn) = "ip" THEN omega ELSE 0 - omega, im |-> 0 - eta]

\* The closure matr_multiply of a solve_* loop body: the operator
\* v -> eom.matvec(v, imds=imds) + shift * v, named by what it closes over.
MatrMultiplyRebuilt(im, shift) == [imds |-> [sector |-> im.sector, id |-> im.id + 1], fac |-> shift]

MatrMultiply(im, shift) == [imds |-> im, fac |-> shift]

\* the closure of a td_* call: v -> tfac * eom.matvec(v, imds=imds)
TdMatrMultiply(im, tfac) == MatrMultiply(im, tfac)

\* the solution the linear solver returns for A x = b started from x0
Sol(solver, A, b, g, aux) == [t |-> "sol", solver |-> solver, A |-> A, b |-> b, x0 |-> g, p0 |-> aux]

\* scipy.integrate.solve_ivp(F, (ti, tf), y0, t_eval=times, rtol=tol, atol=tol).y
Ivp(F, times, y0) ==
  [t |-> "ivp", A |-> F, span |-> <<times[1], times[Len(times)]>>, y0 |-> y0, t_eval |-> times]

\* x0 = sol
NextGuessDropped(g, sol) == g

NextGuess(g, sol) == sol

\* the status codes gmres may return: 0 converged, > 0 not converged,
\* < 0 illegal input or breakdown
Infos == {0 - 1, 0, 1}

\* if info != 0: raise RuntimeError
RaisesOnPositive(info) == info > 0

Raises(info) == info # 0

\* ------------------------------------------------------------ the tensor
Zero == [sign |-> 0]

\* sign * np.dot(e, x); n is the time sample of x taken (0 for a solve)
Proj(sign, e, x, n) == [sign |-> sign, e |-> e, x |-> x, n |-> n]

NoGf == [dtype |-> "none", shape |-> <<0, 0, 0>>, data |-> <<>>]

\* np.zeros(shape, dtype)
Zeros(shape, dtype) ==
  [dtype |-> dtype, shape |-> shape, data |-> [k \in 1..(shape[1] * shape[2] * shape[3]) |-> Zero]]

InRange(g, i, j, w) ==
  /\ 0 <= i /\ i < g.shape[1]
  /\ 0 <= j /\ j < g.shape[2]
  /\ 0 <= w /\ w < g.shape[3]

Flat(g, i, j, w) == (i * g.shape[2] + j) * g.shape[3] + w + 1

\* g[i, j, w], "IndexError" outside the tensor
Entry(g, i, j, w) == IF InRange(g, i, j, w) THEN g.data[Flat(g, i, j, w)] ELSE [sign |-> 2]

\* gfvals[0, 0, :]
Collapse(g) == [dtype |-> g.dtype, shape |-> <<g.shape[3]>>, data |-> [w \in 1..g.shape[3] |-> g.data[w]]]

\* ------------------------------------------------ per-routine conventions
\* the allocated shape: (len(ps), len(qs), len(grid)); AO: both axes len(ps)
GfShape(fn, c) == <<Len(c.ps), IF IsAo(fn) THEN Len(c.ps) ELSE Len(c.qs), Len(c.grid)>>

\* the (first, second) index written for ket position k and bra position j
WriteIndexBraFirst(f, k, j) == <<j, k>>

WriteIndex(f, k, j) ==
  IF f \in {"solve_ip", "solve_ip_ao"} THEN <<k, j>> ELSE <<j, k>>

\* the sign in front of the dot product
Sign(fn) == IF fn \in {"solve_ip", "solve_ip_ao"} THEN 0 - 1 ELSE 1

\* dtype and tfac from re_im; ok = FALSE is the raise RuntimeError
TdModeLenient(fn, m) ==
  IF m = "im"
  THEN [ok |-> TRUE, dtype |-> "float64", tfac |-> [re |-> IF Sector(fn) = "ip" THEN 1 ELSE 0 - 1, im |-> 0]]
  ELSE [ok |-> TRUE, dtype |-> "complex128", tfac |-> [re |-> 0, im |-> IF Sector(fn) = "ip" THEN 1 ELSE 0 - 1]]

TdMode(fn, m) ==
  IF m = "im"
  THEN [ok |-> TRUE, dtype |-> "float64", tfac |-> [re |-> IF Sector(fn) = "ip" THEN 1 ELSE 0 - 1, im |-> 0]]
  ELSE IF m = "re"
  THEN [ok |-> TRUE, dtype |-> "complex128", tfac |-> [re |-> 0, im |-> IF Sector(fn) = "ip" THEN 1 ELSE 0 - 1]]
  ELSE [ok |-> FALSE, dtype |-> "none", tfac |-> [re |-> 0, im |-> 0]]

\* the dtype the output tensor is allocated with
GfDtype(fn, dtype) ==
  IF IsTd(fn) THEN (IF fn = "td_ea" THEN "complex128" ELSE dtype) ELSE "complex128"

\* ------------------------------------------------------------------ state
VARIABLES
  self,     \* the greens_function object: its only attribute is verbose
  gminres,  \* whether "import gminres" succeeds in this interpreter
  pc,       \* "idle", "loop" (inside a routine's loops), "done", "failed"
  call,     \* the inputs of the current top-level call
  fn,       \* the routine executing (solve_gf: solve_ip, then solve_ea)
  mode,     \* td_*: dtype and tfac
  imds,     \* the local eomip_imds / eomea_imds
  x0,       \* the local x0
  p0,       \* the local p0
  evec,     \* the local e_vector list / the rows of e_vector_ao
  bao,      \* the columns of b_vector_ao
  gf,       \* the local gfvals / gf_ao
  ik,       \* position of the outer loop (0-based)
  iw,       \* position of the frequency loop (0-based)
  nmake,    \* make_imds() calls of this top-level call
  nvec,     \* b- and e-vectors built by this top-level call
  log,      \* the solver / integrator invocations of this top-level call
  err,      \* the exception that ended the call
  results,  \* the tensors returned by the routines of this top-level call
  ref,      \* the first completed call, as observed by a caller
  bld       \* the last builder application: its arguments and its amplitudes

vars == <<self, gminres, pc, call, fn, mode, imds, x0, p0, evec, bao, gf, ik, iw,
          nmake, nvec, log, err, results, ref, bld>>

NoCall == [op |-> "none", ps |-> <<>>, qs |-> <<>>, grid |-> <<>>, mode |-> "re", eta |-> 0]

NoErr == [kind |-> "none", info |-> 0]

NoMode == [ok |-> TRUE, dtype |-> "complex128", tfac |-> [re |-> 0, im |-> 0]]

NoBld == [kind |-> "none"]

Init ==
  /\ self \in {[verbose |-> v] : v \in {0, 1}}
  /\ gminres \in BOOLEAN
  /\ pc = "idle"
  /\ call = NoCall
  /\ fn = "none"
  /\ mode = NoMode
  /\ imds = NoImds
  /\ x0 = Vec(<<>>)
  /\ p0 = Vec(<<>>)
  /\ evec = <<>>
  /\ bao = <<>>
  /\ gf = NoGf
  /\ ik = 0
  /\ iw = 0
  /\ nmake = 0
  /\ nvec = 0
  /\ log = <<>>
  /\ err = NoErr
  /\ results = <<>>
  /\ ref = [set |-> FALSE, call |-> NoCall, results |-> <<>>, other |-> FALSE]
  /\ bld = NoBld

\* ---------------------------------------------------------------- prologue
\* Everything a routine does before its loops: the mode check (td_*), the
\* intermediates, the initial guess (solve_*), the bra vectors, the AO
\* rotation, the output tensor.  made = make_imds() calls so far, built =
\* vectors so far, prev = what x0 held.
Enter(f, c, made, built, prev) ==
  LET m == IF IsTd(f) THEN TdMode(f, c.mode) ELSE NoMode
      nmo == Cardinality(Orbs)
  IN IF ~m.ok
     THEN [fail |-> TRUE, mode |-> m, imds |-> NoImds, nmake |-> made, nvec |-> built,
           x0 |-> Vec(<<>>), p0 |-> Vec(<<>>), evec |-> <<>>, bao |-> <<>>, gf |-> NoGf]
     ELSE [fail |-> FALSE,
           mode |-> m,
           imds |-> MakeImds(f, made + 1),
           nmake |-> made + 1,
           nvec |-> built + (IF IsAo(f) THEN 2 * nmo ELSE Len(Bras(f, c))),
           x0 |-> IF IsTd(f) THEN Vec(<<>>) ELSE StartGuess(f, prev),
           p0 |-> IF IsTd(f) THEN Vec(<<>>) ELSE OnesLike(f),
           evec |-> IF IsAo(f)
                    THEN [k \in 1..Len(c.ps) |-> EVectorAo(f, c.ps, k - 1)]
                    ELSE [k \in 1..Len(Bras(f, c)) |-> EVectorMo(f, Bras(f, c)[k])],
           bao |-> IF IsAo(f)
                   THEN [k \in 1..Len(c.ps) |-> BVectorAo(f, c.ps, k - 1)]
                   ELSE <<>>,
           gf |-> Zeros(GfShape(f, c), GfDtype(f, m.dtype))]

Install(f, fr) ==
  /\ fn' = f
  /\ mode' = fr.mode
  /\ imds' = fr.imds
  /\ nmake' = fr.nmake
  /\ nvec' = fr.nvec
  /\ x0' = fr.x0
  /\ p0' = fr.p0
  /\ evec' = fr.evec
  /\ bao' = fr.bao
  /\ gf' = fr.gf
  /\ ik' = 0
  /\ iw' = 0

\* A top-level call: the caller picks the operation and its arguments.
Begin(c) ==
  /\ LET f == FirstRoutine(c.op)
         fr == Enter(f, c, 0, 0, x0)
     IN /\ Install(f, fr)
        /\ pc' = IF fr.fail THEN "failed" ELSE "loop"
        /\ err' = IF fr.fail THEN [kind |-> "RuntimeError", info |-> 0] ELSE NoErr
  /\ call' = c
  /\ log' = <<>>
  /\ results' = <<>>
  /\ UNCHANGED <<self, gminres, ref, bld>>

\* ------------------------------------------------------------- loop bodies
\* the ket vector of outer position k: b_vector_ao[:, p] with p the orbital
\* (AO), the b-vector of the orbital (MO); err = IndexError
KetVector(f, c, cols, k) ==
  LET p == Kets(f, c)[k + 1]
  IN IF IsAo(f)
     THEN (IF PyIndex(p, Len(cols)) < 0
           THEN [err |-> TRUE, v |-> <<>>]
           ELSE [err |-> FALSE, v |-> cols[PyIndex(p, Len(cols)) + 1]])
     ELSE [err |-> FALSE, v |-> BVectorMo(f, p)]

RECURSIVE Fill(_, _, _, _, _, _, _)
\* the projection loop of one solution x: bra positions j .. nb-1, the time
\* slots ws; stops at the first index outside the tensor
Fill(f, g, es, k, j, ws, x) ==
  IF j >= Len(es)
  THEN [err |-> FALSE, gf |-> g]
  ELSE LET at == WriteIndex(f, k, j)
       IN IF \E w \in ws : ~InRange(g, at[1], at[2], w)
          THEN [err |-> TRUE, gf |-> g]
          ELSE Fill(f,
                    [g EXCEPT !.data = [n \in DOMAIN g.data |->
                       IF \E w \in ws : n = Flat(g, at[1], at[2], w)
                       THEN Proj(Sign(f), es[j + 1], x,
                                 IF IsTd(f) THEN (n - 1) % g.shape[3] ELSE 0)
                       ELSE g.data[n]]],
                    es, k, j + 1, ws, x)

LogEntry(f, k, w, A, b, g, x, info) ==
  [fn |-> f, k |-> k, w |-> w, A |-> A, b |-> b, x0 |-> g, x |-> x, info |-> info]

SolveFrame == <<self, gminres, call, fn, mode, imds, p0, evec, bao, nmake, results, ref, bld>>

\* One pass of the frequency loop of a solve_* routine: the linear solve
\* of (ket ik, frequency iw) and the projection onto every bra.
SolveStep ==
  /\ pc = "loop"
  /\ ~IsTd(fn)
  /\ ik < Len(Kets(fn, call))
  /\ LET ket == KetVector(fn, call, bao, ik)
         A == MatrMultiply(imds, Shift(fn, call.grid[iw + 1], call.eta))
         built == nvec + (IF ~IsAo(fn) /\ iw = 0 THEN 1 ELSE 0)
         last == iw + 1 = Len(call.grid)
     IN IF ket.err
        THEN /\ pc' = "failed"
             /\ err' = [kind |-> "IndexError", info |-> 0]
             /\ UNCHANGED <<x0, gf, ik, iw, nvec, log>>
        ELSE \E info \in (IF gminres THEN {0} ELSE Infos) :
               LET sol == Sol(IF gminres THEN "gminres" ELSE "gmres", A, ket.v, x0,
                              IF gminres THEN p0 ELSE Vec(<<>>))
                   filled == Fill(fn, gf, evec, ik, 0, {iw}, sol)
               IN /\ nvec' = built
                  /\ log' = Append(log, LogEntry(fn, ik, iw, A, ket.v, x0, sol, info))
                  /\ IF Raises(info)
                     THEN /\ pc' = "failed"
                          /\ err' = [kind |-> "RuntimeError", info |-> info]
                          /\ UNCHANGED <<x0, gf, ik, iw>>
                     ELSE /\ x0' = NextGuess(x0, sol)
                          /\ gf' = filled.gf
                          /\ pc' = IF filled.err THEN "failed" ELSE "loop"
                          /\ err' = IF filled.err THEN [kind |-> "IndexError", info |-> 0] ELSE NoErr
                          /\ ik' = IF last THEN ik + 1 ELSE ik
                          /\ iw' = IF last THEN 0 ELSE iw + 1
  /\ UNCHANGED SolveFrame

\* One pass of the orbital loop of a td_* routine: the integration of ket
\* ik over the time grid and the projection of every sample onto every bra.
PropStep ==
  /\ pc = "loop"
  /\ IsTd(fn)
  /\ ik < Len(Kets(fn, call))
  /\ LET ket == KetVector(fn, call, bao, ik)
         F == TdMatrMultiply(imds, mode.tfac)
         y == Ivp(F, call.grid, ket.v)
         filled == Fill(fn, gf, evec, ik, 0, 0..(Len(call.grid) - 1), y)
     IN IF ket.err
        THEN /\ pc' = "failed"
             /\ err' = [kind |-> "IndexError", info |-> 0]
             /\ UNCHANGED <<gf, ik, nvec, log>>
        ELSE /\ nvec' = nvec + (IF IsAo(fn) THEN 0 ELSE 1)
             /\ log' = Append(log, LogEntry(fn, ik, 0, F, ket.v, Vec(ket.v), y, 0))
             /\ gf' = filled.gf
             /\ pc' = IF filled.err THEN "failed" ELSE "loop"
             /\ err' = IF filled.err THEN [kind |-> "IndexError", info |-> 0] ELSE NoErr
             /\ ik' = IF filled.err THEN ik ELSE ik + 1
  /\ UNCHANGED <<x0, iw>>
  /\ UNCHANGED SolveFrame

\* ------------------------------------------------------------------ return
\* what the routine returns: solve_ip / solve_ea give gfvals[0, 0, :] for a
\* single bra and a single ket
Returned(f, c, g) ==
  IF f \in {"solve_ip", "solve_ea"} /\ Len(c.ps) = 1 /\ Len(c.qs) = 1 THEN Collapse(g) ELSE g

AtReturn == pc = "loop" /\ ik = Len(Kets(fn, call))

Finish ==
  /\ AtReturn
  /\ ~(call.op = "solve_gf" /\ fn = "solve_ip")
  /\ results' = Append(results, Returned(fn, call, gf))
  /\ pc' = "done"
  /\ UNCHANGED <<self, gminres, call, fn, mode, imds, x0, p0, evec, bao, gf, ik, iw,
                 nmake, nvec, log, err, bld>>

\* the routine returns to its caller
Return == Finish /\ UNCHANGED ref

\* the routine returns to a caller that keeps the first result it gets
ReturnObserved ==
  /\ Finish
  /\ ref' = IF ref.set
            THEN [ref EXCEPT !.other = ref.other \/ call # ref.call]
            ELSE [set |-> TRUE, call |-> call, results |-> results', other |-> FALSE]

\* solve_gf: solve_ip has returned, solve_ea is entered
GfSecond ==
  /\ AtReturn
  /\ call.op = "solve_gf" /\ fn = "solve_ip"
  /\ results' = Append(results, Returned(fn, call, gf))
  /\ LET fr == Enter("solve_ea", call, nmake, nvec, x0)
     IN /\ Install("solve_ea", fr)
        /\ pc' = IF fr.fail THEN "failed" ELSE "loop"
        /\ err' = IF fr.fail THEN [kind |-> "RuntimeError", info |-> 0] ELSE NoErr
  /\ UNCHANGED <<self, gminres, call, log, ref, bld>>

\* a call on the object as constructed
Call == pc = "idle" /\ \E c \in Inputs : Begin(c)

\* a call on the object in any state between calls
CallAgain == pc \in {"idle", "done", "failed"} /\ \E c \in RepeatInputs : Begin(c)

\* ------------------------------------------------------ builder harness
\* every orbital p in [0, nocc + nvir) of every small system
BuilderArgs ==
  {a \in [cc : [nocc : 1..MaxShape, nvir : 1..MaxShape, seed : 1..MaxSeed], p : 0..(2 * MaxShape - 1)] :
      a.p < a.cc.nocc + a.cc.nvir}

CallVars == <<self, gminres, pc, call, fn, mode, imds, x0, p0, evec, bao, gf, ik, iw,
              nmake, nvec, log, err, results, ref>>

BuildIpKet ==
  /\ bld = NoBld
  /\ \E a \in BuilderArgs :
       bld' = [kind |-> "ip_b", cc |-> a.cc, p |-> a.p, out |-> greens_b_amplitudes_ip_rhf(a.cc, a.p)]
  /\ UNCHANGED CallVars

BuildIpBra ==
  /\ bld = NoBld
  /\ \E a \in BuilderArgs :
       bld' = [kind |-> "ip_e", cc |-> a.cc, p |-> a.p, out |-> greens_e_amplitudes_ip_rhf(a.cc, a.p)]
  /\ UNCHANGED CallVars

BuildEaKet ==
  /\ bld = NoBld
  /\ \E a \in BuilderArgs :
       bld' = [kind |-> "ea_b", cc |-> a.cc, p |-> a.p, out |-> greens_b_amplitudes_ea_rhf(a.cc, a.p)]
  /\ UNCHANGED CallVars

BuildEaBra ==
  /\ bld = NoBld
  /\ \E a \in BuilderArgs :
       bld' = [kind |-> "ea_e", cc |-> a.cc, p |-> a.p, out |-> greens_e_amplitudes_ea_rhf(a.cc, a.p)]
  /\ UNCHANGED CallVars

\* --------------------------------------------------------- specifications
\* one top-level call, with any inputs, on a freshly constructed object
Next ==
  \/ Call
  \/ SolveStep
  \/ PropStep
  \/ Return
  \/ GfSecond

Spec == Init /\ [][Next]_vars

\* any number of top-level calls, one after the other, on the same object
NextRepeat ==
  \/ CallAgain
  \/ SolveStep
  \/ PropStep
  \/ ReturnObserved
  \/ GfSecond

SpecRepeat == Init /\ [][NextRepeat]_vars

\* the four builders applied to every orbital of every small system
NextBuilders ==
  \/ BuildIpKet
  \/ BuildIpBra
  \/ BuildEaKet
  \/ BuildEaBra

SpecBuilders == Init /\ [][NextBuilders]_vars

\* ------------------------------------------------------------ properties
Started == pc # "idle"

ValidMode == call.mode \in {"re", "im"}

\* the solver / integrator invocations of the routine now executing
CurLog == SelectSeq(log, LAMBDA e : e.fn = fn)

\* the propagated state of ket orbital q in a td_* call of routine f
Propagated(f, q) ==
  Ivp([imds |-> [sector |-> Sector(f), id |-> 1], fac |-> TdMode(f, call.mode).tfac],
      call.grid, BVectorMo(f, q))

\* C1 (as claimed): a td_ip / td_ea call with a valid mode never ends in an
\* IndexError, and what it returns has shape (bras, kets, times) with entry
\* [i, j, n] the projection of the propagated state of ket j, sampled at
\* time n, onto the e-vector of bra i.
C1_TdFillsBraKetTensor ==
  (Started /\ call.op \in MoTdOps /\ ValidMode) =>
     /\ err.kind # "IndexError"
     /\ pc = "done" =>
          LET g == results[1]
              bras == Bras(fn, call)
              kets == Kets(fn, call)
          IN /\ g.shape = <<Len(bras), Len(kets), Len(call.grid)>>
             /\ \A i \in 0..(Len(bras) - 1), j \in 0..(Len(kets) - 1), n \in 0..(Len(call.grid) - 1) :
                  Entry(g, i, j, n) = Proj(1, EVectorMo(fn, bras[i + 1]), Propagated(fn, kets[j + 1]), n)

\* C2 (as claimed): every td_* call returns a float64 tensor in mode "im"
\* and a complex128 tensor in mode "re".
C2_TdDtypeFollowsMode ==
  (pc = "done" /\ call.op \in TdOps) =>
     results[1].dtype = (IF call.mode = "im" THEN "float64" ELSE "complex128")

\* C3 (as claimed): in the AO routines no call ends in an IndexError, and
\* the ket handed to the solver / integrator for output position k is the
\* AO-transformed b-vector of the requested orbital ps[k].
C3_AoKetIsRequestedOrbital ==
  (Started /\ call.op \in AoOps) =>
     /\ err.kind # "IndexError"
     /\ \A n \in DOMAIN log : log[n].b = BVectorAo(fn, call.ps, log[n].k)

ManyIndices == Len(call.ps) > 1 \/ Len(call.qs) > 1

\* the log entry of the solve for ket position k at frequency position w
SolveOf(k, w) == log[k * Len(call.grid) + w + 1]

C5_SolverFailureIsFatal ==
  \A n \in DOMAIN log :
     log[n].info # 0 =>
        /\ n = Len(log)
        /\ pc = "failed"
        /\ err = [kind |-> "RuntimeError", info |-> log[n].info]
        /\ Len(results) = (IF call.op = "solve_gf" /\ fn = "solve_ea" THEN 1 ELSE 0)
        /\ x0 = log[n].x0

\* C5 witness: the third solve of a call without gminres failed with a
\* negative status after two solves that converged.
C5_Witness ==
  /\ pc = "failed" /\ ~gminres /\ Len(log) = 3
  /\ log[3].info < 0 /\ log[2].info = 0
  /\ err.info = log[3].info

\* C6: a td_* call with an unrecognized mode is failed by the entry of the
\* routine: no intermediates were built, no b- or e-vector was constructed,
\* no tensor was allocated and the integrator was never called.
C6_BadModeFailsFirst ==
  (Started /\ call.op \in TdOps /\ ~ValidMode) =>
     /\ pc = "failed"
     /\ err = [kind |-> "RuntimeError", info |-> 0]
     /\ nmake = 0 /\ imds = NoImds
     /\ nvec = 0 /\ evec = <<>> /\ bao = <<>>
     /\ gf = NoGf
     /\ log = <<>>
     /\ results = <<>>

\* C6 witness: td_ea_ao was called with the mode "xx" and has failed.
C6_Witness == pc = "failed" /\ call.op = "td_ea_ao" /\ call.mode = "xx"

\* C7: a completed call whose inputs are those of the first completed call
\* on the object returns what that call returned, whatever was called in
\* between.
C7_RepeatedCallSameResult ==
  (pc = "done" /\ ref.set /\ call = ref.call) => results = ref.results

\* C7 witness: the inputs of the first completed call (a solve_gf) were
\* given again after a call with other inputs had completed, and the
\* repeated call is done.
C7_Witness ==
  /\ pc = "done" /\ ref.set /\ ref.other
  /\ call = ref.call /\ call.op = "solve_gf"

\* C8: in a solve_* routine the n-th solve is that of ket position
\* (n-1) div nw and frequency position (n-1) mod nw, at the frequency the
\* caller gave at that position, and its initial guess is the zero vector
\* for n = 1 and the solution returned by solve n-1 otherwise, also when
\* solve n-1 belongs to the previous ket index.
C8_WarmStartChain ==
  (Started /\ ~IsTd(fn)) =>
     LET nw == Len(call.grid)
     IN \A n \in DOMAIN CurLog :
          /\ CurLog[n].k = (n - 1) \div nw
          /\ CurLog[n].w = (n - 1) % nw
          /\ CurLog[n].A.fac = Shift(fn, call.grid[((n - 1) % nw) + 1], call.eta)
          /\ CurLog[n].x0 = (IF n = 1 THEN Vec([k \in 1..SectorDim(fn) |-> 0]) ELSE CurLog[n - 1].x)

\* C8 witness: with the frequencies <<2, 1>> and two ket indices, the first
\* solve of the second ket index started from the solution of the last
\* solve of the first ket index.
C8_Witness ==
  /\ Started /\ ~IsTd(fn) /\ call.grid = <<2, 1>>
  /\ Len(CurLog) >= 3
  /\ CurLog[3].k = 1 /\ CurLog[3].w = 0
  /\ CurLog[3].x0 = CurLog[2].x
  /\ CurLog[2].k = 0

\* the amplitudes each builder must return for an occupied orbital i and
\* for the virtual orbital c, written out entry by entry
UnitAt(n, i) == [k \in 1..n |-> IF k = i + 1 THEN 1 ELSE 0]

AllZero(v) == \A k \in DOMAIN v : v[k] = 0

\* C9: each builder takes its occupied-orbital formula exactly for p < nocc
\* and its virtual-orbital formula, with virtual index p - nocc, exactly for
\* nocc <= p < nocc + nvir; p = nocc is the virtual orbital 0.
C9_BranchByOrbital ==
  (bld.kind # "none") =>
     LET cc == bld.cc
         p == bld.p
         c == p - cc.nocc
         v1 == bld.out.v1
         v2 == bld.out.v2
     IN /\ ~bld.out.err
        /\ bld.kind = "ip_b" =>
             IF p < cc.nocc
             THEN v1 = UnitAt(cc.nocc, p) /\ Len(v2) = cc.nocc * cc.nocc * cc.nvir /\ AllZero(v2)
             ELSE /\ v1 = [k \in 1..cc.nocc |-> T1(cc, k - 1, c)]
                  /\ v2 = Ravel([i \in 0..(cc.nocc - 1), j \in 0..(cc.nocc - 1), a \in 0..(cc.nvir - 1) |-> T2(cc, i, j, a, c)], cc.nocc, cc.nvir)
        /\ bld.kind = "ea_b" =>
             IF p < cc.nocc
             THEN /\ v1 = [k \in 1..cc.nvir |-> 0 - T1(cc, p, k - 1)]
                  /\ v2 = Ravel([j \in 0..(cc.nocc - 1), a \in 0..(cc.nvir - 1), b \in 0..(cc.nvir - 1) |-> 0 - T2(cc, p, j, a, b)], cc.nvir, cc.nvir)
             ELSE v1 = UnitAt(cc.nvir, c) /\ Len(v2) = cc.nocc * cc.nvir * cc.nvir /\ AllZero(v2)
        /\ bld.kind = "ip_e" =>
             IF p < cc.nocc
             THEN /\ v1 = [k \in 1..cc.nocc |->
                            SumF([a \in 0..(cc.nvir - 1) |-> L1(cc, k - 1, a) * T1(cc, p, a)])
                            + SumF([l \in 0..(cc.nocc - 1) |-> SumF([d \in 0..(cc.nvir - 1) |-> SumF([e \in 0..(cc.nvir - 1) |-> L2(cc, k - 1, l, d, e) * (2 * T2(cc, p, l, d, e) - T2(cc, p, l, e, d))])])])
                            - (IF k - 1 = p THEN 1 ELSE 0)]
                  /\ v2 = Ravel([i \in 0..(cc.nocc - 1), j \in 0..(cc.nocc - 1), b \in 0..(cc.nvir - 1) |-> (IF i = p THEN (0 - 2) * L1(cc, j, b) ELSE 0)
                            + (IF j = p THEN L1(cc, i, b) ELSE 0)
                            + SumF([d \in 0..(cc.nvir - 1) |-> T1(cc, p, d) * (2 * L2(cc, i, j, d, b) - L2(cc, j, i, d, b))])], cc.nocc, cc.nvir)
             ELSE /\ v1 = [k \in 1..cc.nocc |-> 0 - L1(cc, k - 1, c)]
                  /\ v2 = Ravel([i \in 0..(cc.nocc - 1), j \in 0..(cc.nocc - 1), a \in 0..(cc.nvir - 1) |-> L2(cc, i, j, a, c) - 2 * L2(cc, i, j, c, a)], cc.nocc, cc.nvir)
        /\ bld.kind = "ea_e" =>
             IF p < cc.nocc
             THEN /\ v1 = [k \in 1..cc.nvir |-> L1(cc, p, k - 1)]
                  /\ v2 = Ravel([j \in 0..(cc.nocc - 1), a \in 0..(cc.nvir - 1), b \in 0..(cc.nvir - 1) |-> 2 * L2(cc, p, j, a, b) - L2(cc, j, p, a, b)], cc.nvir, cc.nvir)
             ELSE /\ v1 = [x \in 1..cc.nvir |->
                            SumF([i \in 0..(cc.nocc - 1) |-> L1(cc, i, x - 1) * T1(cc, i, c)])
                            + SumF([k \in 0..(cc.nocc - 1) |-> SumF([l \in 0..(cc.nocc - 1) |-> SumF([d \in 0..(cc.nvir - 1) |-> L2(cc, k, l, d, x - 1) * (2 * T2(cc, k, l, d, c) - T2(cc, l, k, d, c))])])])
                            - (IF x - 1 = c THEN 1 ELSE 0)]
                  /\ v2 = Ravel([j \in 0..(cc.nocc - 1), a \in 0..(cc.nvir - 1), b \in 0..(cc.nvir - 1) |-> (IF a = c THEN (0 - 2) * L1(cc, j, b) ELSE 0)
                            + (IF b = c THEN L1(cc, j, a) ELSE 0)
                            + SumF([k \in 0..(cc.nocc - 1) |-> T1(cc, k, c) * (2 * L2(cc, j, k, b, a) - L2(cc, j, k, a, b))])], cc.nvir, cc.nvir)

\* C9 witness: the EA bra builder was applied to p = nocc of a system with
\* two occupied and two virtual orbitals and returned the amplitudes of the
\* virtual orbital 0, whose rank-1 block is not l1[p, :] of any occupied p.
C9_Witness ==
  /\ bld.kind = "ea_e" /\ bld.cc.nocc = 2 /\ bld.cc.nvir = 2 /\ bld.p = bld.cc.nocc
  /\ ~bld.out.err
  /\ \A i \in 0..(bld.cc.nocc - 1) : bld.out.v1 # [k \in 1..bld.cc.nvir |-> L1(bld.cc, i, k - 1)]

====
